---- MODULE Spec2Model ----
(***************************************************************************)
(* Vantage-point tree of vptree.hpp: construction (VpTree constructor,     *)
(* makeTree, selectRoot, partitionByDistance, makeNode, makeItems) and     *)
(* k-nearest-neighbour search (getNearestNeighbors, Searcher::search,      *)
(* Searcher::searchInNode).                                                *)
(*                                                                         *)
(* C++ indices are kept 0-based in every value of the model (Node.item,    *)
(* Node.left, Result.index, ...); At(s, i) reads position i of a vector.   *)
(* Items are std::vector<double> of two components, drawn either from the  *)
(* points of a line or from the corners of a 3-4-5 triangle.               *)
(* EuclideanMetric is exact on each family (every distance is an integer), *)
(* with ties and degenerate triangles on the line and strict triangles on  *)
(* the corners.  Distances are small against DblMax, so dist + tau_ and    *)
(* dist - tau_ compare as they do in double arithmetic.                    *)
(***************************************************************************)
EXTENDS Integers, Sequences, FiniteSets, TLC

\* ---------------------------------------------------------------- bounds
MaxN == 4          \* largest number of items handed to the constructor
MaxCoord == 2      \* the points of the line are (0,0) .. (MaxCoord,0)
MaxK == 3          \* neighborsCount ranges over -1..MaxK

\* ------------------------------------------------------ program constants
Leaf == -1         \* Node::Leaf
DblMax == 1000000  \* std::numeric_limits<double>::max()

Searchers == {1, 2}

\* the items and targets of one run come from one family
Line == {<<x, 0>> : x \in 0..MaxCoord}
Triangle == {<<0, 0>>, <<3, 0>>, <<0, 4>>}
Families == {Line, Triangle}

At(s, i) == s[i + 1]

\* ------------------------------------------------------------ the metric
RECURSIVE sum(_)
sum(s) == IF s = <<>> THEN 0 ELSE Head(s) + sum(Tail(s))

\* std::sqrt, on the perfect squares the items of a family produce
Sqrt(x) == CHOOSE r \in 0..x : r * r = x

EuclideanMetric(v1, v2) ==
    LET diffSquares == [i \in 1..Len(v1) |-> (v1[i] - v2[i]) * (v1[i] - v2[i])]
    IN  Sqrt(sum(diffSquares))

getDistance(v1, v2) == EuclideanMetric(v1, v2)

\* ---------------------------------------------------------- construction
\* items_ is a sequence of pairs <<item, original index>>
makeItems(in) == [i \in 1..Len(in) |-> <<in[i], i - 1>>]

Node(item) == [item |-> item, threshold |-> 0, left |-> Leaf, right |-> Leaf]

\* nodes_.push_back(Node(item)); return nodes_.size() - 1
makeNode(st, item) ==
    [items |-> st.items, nodes |-> Append(st.nodes, Node(item)),
     rng |-> st.rng, ret |-> Len(st.nodes)]

\* One draw of uni(rng_) in lower..upper-1, swapped into position lower.
\* rng_ is the number of values drawn from the generator so far.
selectRoot(st, lower, upper) ==
    { [items |-> [st.items EXCEPT ![lower + 1] = At(st.items, root),
                                  ![root + 1] = At(st.items, lower)],
       nodes |-> st.nodes, rng |-> st.rng + 1] : root \in lower..(upper - 1) }

\* the comparison turned around: farther items ordered first
MutCloser(items, lower, i1, i2) ==
    getDistance(At(items, lower)[1], i1[1]) > getDistance(At(items, lower)[1], i2[1])

\* the comparator handed to std::nth_element
Closer(items, lower, i1, i2) ==
    getDistance(At(items, lower)[1], i1[1]) < getDistance(At(items, lower)[1], i2[1])

\* std::nth_element(first, nth, last, comp): every rearrangement of
\* [first, last) in which no element before nth is greater than the element
\* at nth and no element after nth is less than it.
NthElement(items, lower, first, nth, last) ==
    LET R == (first + 1)..last          \* the 1-based positions of [first, last)
        Perms == {p \in [R -> R] : \A a, b \in R : a # b => p[a] # p[b]}
        Apply(p) == [i \in 1..Len(items) |-> IF i \in R THEN items[p[i]] ELSE items[i]]
    IN  { s \in {Apply(p) : p \in Perms} :
            /\ \A i \in first..(nth - 1) : ~Closer(s, lower, At(s, nth), At(s, i))
            /\ \A i \in (nth + 1)..(last - 1) : ~Closer(s, lower, At(s, i), At(s, nth)) }

partitionByDistance(st, lower, pos, upper) ==
    { [items |-> s, nodes |-> st.nodes, rng |-> st.rng] :
        s \in NthElement(st.items, lower, lower + 1, pos, upper) }

\* makeTree(lower, upper): the set of outcomes [items, nodes, rng, ret], one
\* for every draw of the generator and every placement by nth_element.
\* nodes_ was reserved for items_.size() nodes, so the reference nodes_[node]
\* stays valid across the recursive calls.
\* the range of the left child: makeTree(lower + 1, median)
LeftRange(lower, median) == <<lower + 1, median>>

\* the right child built without the item at the median
MutRightRange(median, upper) == <<median + 1, upper>>

\* the range of the right child: makeTree(median, upper)
RightRange(median, upper) == <<median, upper>>

RECURSIVE makeTree(_, _, _)
makeTree(st, lower, upper) ==
    IF lower >= upper THEN
        { [items |-> st.items, nodes |-> st.nodes, rng |-> st.rng, ret |-> Leaf] }
    ELSE IF lower + 1 = upper THEN
        { makeNode(st, lower) }
    ELSE
        LET median == (upper + lower) \div 2
            WithNode(p) ==
                LET m == makeNode(p, lower)
                IN  [m EXCEPT !.nodes[m.ret + 1].threshold =
                        getDistance(At(p.items, lower)[1], At(p.items, median)[1])]
            Right(node, l) ==
                LET withLeft == [items |-> l.items,
                                 nodes |-> [l.nodes EXCEPT ![node + 1].left = l.ret],
                                 rng |-> l.rng]
                IN  { [items |-> r.items,
                       nodes |-> [r.nodes EXCEPT ![node + 1].right = r.ret],
                       rng |-> r.rng, ret |-> node] :
                        r \in makeTree(withLeft, RightRange(median, upper)[1],
                                       RightRange(median, upper)[2]) }
            Children(m) ==
                UNION { Right(m.ret, l) : l \in makeTree(m, LeftRange(lower, median)[1],
                                                   LeftRange(lower, median)[2]) }
        IN  UNION { UNION { Children(WithNode(p)) :
                            p \in partitionByDistance(s, lower, median, upper) } :
                    s \in selectRoot(st, lower, upper) }

\* ------------------------------------------------- std::priority_queue
\* HeapItem::operator<
HeapLess(a, b) == a.dist < b.dist

\* std::__push_heap: sift value up from holeIndex
RECURSIVE PushHeapFrom(_, _, _, _)
PushHeapFrom(h, holeIndex, topIndex, value) ==
    LET parent == (holeIndex - 1) \div 2
    IN  IF holeIndex > topIndex /\ HeapLess(At(h, parent), value)
        THEN PushHeapFrom([h EXCEPT ![holeIndex + 1] = At(h, parent)], parent, topIndex, value)
        ELSE [h EXCEPT ![holeIndex + 1] = value]

\* priority_queue::push: push_back, then std::push_heap
PushHeap(h, value) == PushHeapFrom(Append(h, value), Len(h), 0, value)

\* the loop of std::__adjust_heap: move the hole down to a leaf
RECURSIVE AdjustDown(_, _, _)
AdjustDown(h, secondChild, len) ==
    IF secondChild < (len - 1) \div 2
    THEN LET c  == 2 * (secondChild + 1)
             sc == IF HeapLess(At(h, c), At(h, c - 1)) THEN c - 1 ELSE c
         IN  AdjustDown([h EXCEPT ![secondChild + 1] = At(h, sc)], sc, len)
    ELSE IF len % 2 = 0 /\ secondChild = (len - 2) \div 2
    THEN LET c == 2 * (secondChild + 1)
         IN  [h |-> [h EXCEPT ![secondChild + 1] = At(h, c - 1)], hole |-> c - 1]
    ELSE [h |-> h, hole |-> secondChild]

\* priority_queue::pop on a non-empty queue: std::pop_heap, then pop_back
PopHeap(h) ==
    IF Len(h) <= 1 THEN <<>>
    ELSE LET len   == Len(h) - 1
             value == h[Len(h)]
             down  == AdjustDown(SubSeq(h, 1, len), 0, len)
         IN  PushHeapFrom(down.h, down.hole, 0, value)

\* heap_.size() == neighborsCount_ compares a size_t with an int: the int is
\* converted modulo 2^64, so a negative count becomes a value no heap size
\* reaches.
SizeEq(size, count) == count >= 0 /\ size = count

\* ------------------------------------------------------------ the search
HeapItem(item, dist) == [item |-> item, dist |-> dist]

\* What tau_ = heap_.top().dist can read when the heap holds no element.
IndeterminateTau(dist) == {0, dist, DblMax}

\* heap_.pop() on an empty heap has no defined behaviour.  Outcomes: the
\* process faults; the pop leaves the heap empty and the push that follows
\* adds the element; or the size underflows, the push brings it back to 0
\* (the element is written outside the heap) and top() reads an
\* indeterminate distance.
PopEmpty(h, tau, item, dist) ==
    { [heap |-> h, tau |-> tau, pushes |-> 0, pops |-> 1, fault |-> TRUE],
      [heap |-> <<HeapItem(item, dist)>>, tau |-> tau, pushes |-> 1, pops |-> 1,
       fault |-> FALSE] }
    \cup { [heap |-> <<>>, tau |-> t, pushes |-> 1, pops |-> 1, fault |-> FALSE] :
             t \in IndeterminateTau(dist) }

\* admission that pushes without evicting the worst candidate of a full heap
MutAdmit(h, tau, k, item, dist) ==
    IF ~(dist < tau) THEN
        { [heap |-> h, tau |-> tau, pushes |-> 0, pops |-> 0, fault |-> FALSE] }
    ELSE
        LET h2 == PushHeap(h, HeapItem(item, dist))
        IN  { [heap |-> h2,
               tau |-> IF SizeEq(Len(h2), k) THEN h2[1].dist ELSE tau,
               pushes |-> 1, pops |-> 0, fault |-> FALSE] }

\* candidate admission of searchInNode
Admit(h, tau, k, item, dist) ==
    IF ~(dist < tau) THEN
        { [heap |-> h, tau |-> tau, pushes |-> 0, pops |-> 0, fault |-> FALSE] }
    ELSE IF SizeEq(Len(h), k) /\ h = <<>> THEN
        PopEmpty(h, tau, item, dist)
    ELSE
        LET full == SizeEq(Len(h), k)
            h1 == IF full THEN PopHeap(h) ELSE h
            h2 == PushHeap(h1, HeapItem(item, dist))
        IN  { [heap |-> h2,
               tau |-> IF SizeEq(Len(h2), k) THEN h2[1].dist ELSE tau,
               pushes |-> 1, pops |-> IF full THEN 1 ELSE 0, fault |-> FALSE] }

\* which child searchInNode looks at first
FirstSide(node, dist) == IF dist < node.threshold THEN "left" ELSE "right"
OtherSide(side) == IF side = "left" THEN "right" ELSE "left"

VisitLeft(node, dist, tau) == node.left # Leaf /\ dist - tau <= node.threshold
\* the right subtree pruned without the slack of tau
MutVisitRight(node, dist, tau) == node.right # Leaf /\ dist >= node.threshold

VisitRight(node, dist, tau) == node.right # Leaf /\ dist + tau >= node.threshold

Visit(side, node, dist, tau) ==
    IF side = "left" THEN VisitLeft(node, dist, tau) ELSE VisitRight(node, dist, tau)
Child(side, node) == IF side = "left" THEN node.left ELSE node.right

\* the position in the reordered item sequence returned as the index
MutMakeResult(items, top) ==
    [item |-> top.item, index |-> top.item, dist |-> top.dist]

\* Result{&items_[item].first, items_[item].second, dist}; the pointer is
\* kept as the position it points to
MakeResult(items, top) ==
    [item |-> top.item, index |-> At(items, top.item)[2], dist |-> top.dist]

RECURSIVE Drain(_, _)
Drain(items, h) ==
    IF h = <<>> THEN <<>>
    ELSE <<MakeResult(items, h[1])>> \o Drain(items, PopHeap(h))

Reverse(s) == [i \in 1..Len(s) |-> s[Len(s) + 1 - i]]

\* the loop and the std::reverse of Searcher::search
Assemble(items, h) == Reverse(Drain(items, h))

\* ------------------------------------------------------------------ state
VARIABLES
    input,            \* the items as the caller supplied them
    built,            \* the constructor has returned
    items_, nodes_, rng_,
    threads,          \* the searchers the caller runs against the tree
    pc,               \* per searcher: "idle", "search", "done", "indeterminate"
    target_, neighborsCount_, tau_, heap_,
    stack,            \* per searcher: the activations of searchInNode
    results,          \* per searcher: what getNearestNeighbors returned
    visited,          \* per searcher: the nodes whose distance was evaluated
    pushes, pops,     \* per searcher: calls of heap_.push and heap_.pop
    oob,              \* nodes_[0] was read from an empty node sequence
    crashed           \* the process faulted

treeVars == <<input, built, items_, nodes_, rng_>>
searchVars == <<pc, target_, neighborsCount_, tau_, heap_, stack, results,
                visited, pushes, pops>>
vars == <<input, built, items_, nodes_, rng_, threads, pc, target_,
          neighborsCount_, tau_, heap_, stack, results, visited, pushes, pops,
          oob, crashed>>

SeqsUpTo(m) == UNION { UNION { [1..k -> F] : k \in 0..m } : F \in Families }
Inputs == SeqsUpTo(MaxN)
\* the targets of the family the items were drawn from
Targets(in) == UNION { F \in Families : \A i \in 1..Len(in) : in[i] \in F }
Counts == (-1)..MaxK

InitWith(T) ==
    /\ input = <<>> /\ built = FALSE
    /\ items_ = <<>> /\ nodes_ = <<>> /\ rng_ = 0
    /\ threads = T
    /\ pc = [s \in Searchers |-> "idle"]
    /\ target_ = [s \in Searchers |-> <<0, 0>>]
    /\ neighborsCount_ = [s \in Searchers |-> 0]
    /\ tau_ = [s \in Searchers |-> DblMax]
    /\ heap_ = [s \in Searchers |-> <<>>]
    /\ stack = [s \in Searchers |-> <<>>]
    /\ results = [s \in Searchers |-> <<>>]
    /\ visited = [s \in Searchers |-> <<>>]
    /\ pushes = [s \in Searchers |-> 0]
    /\ pops = [s \in Searchers |-> 0]
    /\ oob = FALSE /\ crashed = FALSE

Init == InitWith({1})

\* VpTree::VpTree(start, end, metric)
VpTree(in) ==
    /\ ~built
    /\ \E r \in makeTree([items |-> makeItems(in), nodes |-> <<>>, rng |-> 0], 0, Len(in)) :
         /\ items_' = r.items
         /\ nodes_' = r.nodes
         /\ rng_' = r.rng
    /\ input' = in
    /\ built' = TRUE
    /\ UNCHANGED <<threads, searchVars, oob, crashed>>

\* searchInNode(nodes_[nd]) up to the end of candidate admission
EnterNode(s, nd, callers) ==
    LET node == At(nodes_, nd)
        dist == getDistance(At(items_, node.item)[1], target_'[s])
    IN  \E o \in Admit(heap_[s], tau_[s], neighborsCount_'[s], node.item, dist) :
          /\ heap_' = [heap_ EXCEPT ![s] = o.heap]
          /\ tau_' = [tau_ EXCEPT ![s] = o.tau]
          /\ pushes' = [pushes EXCEPT ![s] = @ + o.pushes]
          /\ pops' = [pops EXCEPT ![s] = @ + o.pops]
          /\ crashed' = o.fault
          /\ visited' = [visited EXCEPT ![s] = Append(@, nd)]
          /\ stack' = [stack EXCEPT ![s] =
                         Append(callers, [node |-> nd, dist |-> dist, pc |-> "first"])]

\* getNearestNeighbors(target, neighborsCount): the Searcher is constructed,
\* search() calls root() and enters searchInNode on it.  root() on an empty
\* node sequence reads nodes_[0] out of bounds: the process faults, or the
\* read yields an indeterminate node and nothing is known of what follows.
getNearestNeighbors(s, target, neighborsCount) ==
    /\ built /\ ~crashed
    /\ s \in threads /\ pc[s] = "idle"
    /\ target_' = [target_ EXCEPT ![s] = target]
    /\ neighborsCount_' = [neighborsCount_ EXCEPT ![s] = neighborsCount]
    /\ IF nodes_ = <<>>
       THEN /\ oob' = TRUE
            /\ \/ crashed' = TRUE /\ pc' = [pc EXCEPT ![s] = "search"]
               \/ crashed' = FALSE /\ pc' = [pc EXCEPT ![s] = "indeterminate"]
            /\ UNCHANGED <<tau_, heap_, stack, visited, pushes, pops>>
       ELSE /\ pc' = [pc EXCEPT ![s] = "search"]
            /\ EnterNode(s, 0, <<>>)
            /\ UNCHANGED oob
    /\ UNCHANGED <<treeVars, threads, results>>

\* the activation on top of the stack decides about one of its children
Descend(s, phase, next) ==
    /\ ~crashed /\ pc[s] = "search" /\ stack[s] # <<>>
    /\ LET f == stack[s][Len(stack[s])]
           node == At(nodes_, f.node)
           first == FirstSide(node, f.dist)
           side == IF phase = "first" THEN first ELSE OtherSide(first)
           callers == [stack[s] EXCEPT ![Len(stack[s])].pc = next]
       IN  /\ f.pc = phase
           /\ UNCHANGED <<target_, neighborsCount_>>
           /\ IF Visit(side, node, f.dist, tau_[s])
              THEN EnterNode(s, Child(side, node), callers)
              ELSE /\ stack' = [stack EXCEPT ![s] = callers]
                   /\ UNCHANGED <<tau_, heap_, visited, pushes, pops, crashed>>
    /\ UNCHANGED <<treeVars, threads, pc, results, oob>>

\* the first if of each branch of searchInNode
SearchFirst(s) == Descend(s, "first", "second")

\* the second if of each branch of searchInNode
SearchSecond(s) == Descend(s, "second", "return")

\* searchInNode returns to its caller
SearchReturn(s) ==
    /\ ~crashed /\ pc[s] = "search" /\ stack[s] # <<>>
    /\ stack[s][Len(stack[s])].pc = "return"
    /\ stack' = [stack EXCEPT ![s] = SubSeq(@, 1, Len(@) - 1)]
    /\ UNCHANGED <<treeVars, threads, pc, target_, neighborsCount_, tau_, heap_,
                   results, visited, pushes, pops, oob, crashed>>

\* search() after searchInNode(root) has returned: empty the heap, reverse
SearchResults(s) ==
    /\ ~crashed /\ pc[s] = "search" /\ stack[s] = <<>>
    /\ results' = [results EXCEPT ![s] = Assemble(items_, heap_[s])]
    /\ pops' = [pops EXCEPT ![s] = @ + Len(heap_[s])]
    /\ heap_' = [heap_ EXCEPT ![s] = <<>>]
    /\ pc' = [pc EXCEPT ![s] = "done"]
    /\ UNCHANGED <<treeVars, threads, target_, neighborsCount_, tau_, stack,
                   visited, pushes, oob, crashed>>

\* the steps of the queries, with the neighbour counts drawn from K
SearchWith(K) ==
    \/ \E s \in Searchers, t \in Targets(input), k \in K :
         getNearestNeighbors(s, t, k)
    \/ \E s \in Searchers : SearchFirst(s)
    \/ \E s \in Searchers : SearchSecond(s)
    \/ \E s \in Searchers : SearchReturn(s)
    \/ \E s \in Searchers : SearchResults(s)

Search == SearchWith(Counts)

\* one caller: a tree is built and queried once
Next ==
    \/ \E in \in Inputs : VpTree(in)
    \/ Search

Spec == Init /\ [][Next]_vars

\* construction alone
BuildNext == \E in \in Inputs : VpTree(in)

BuildSpec == Init /\ [][BuildNext]_vars

\* two threads query the same tree, their steps interleaved
ConcN == 2
ConcInputs == SeqsUpTo(ConcN)

ConcInit == InitWith(Searchers)

ConcCounts == (-1)..ConcN

ConcNext ==
    \/ \E in \in ConcInputs : VpTree(in)
    \/ SearchWith(ConcCounts)

ConcSpec == ConcInit /\ [][ConcNext]_vars

\* ================================================================= claims
n == Len(input)
Min(a, b) == IF a < b THEN a ELSE b

RECURSIVE RemoveOne(_, _)
RemoveOne(seq, x) ==
    IF seq = <<>> THEN <<>>
    ELSE IF Head(seq) = x THEN Tail(seq)
    ELSE <<Head(seq)>> \o RemoveOne(Tail(seq), x)

RECURSIVE SortAsc(_)
SortAsc(seq) ==
    IF seq = <<>> THEN <<>>
    ELSE LET m == CHOOSE x \in {seq[i] : i \in 1..Len(seq)} :
                    \A i \in 1..Len(seq) : x <= seq[i]
         IN  <<m>> \o SortAsc(RemoveOne(seq, m))

\* the distances of all supplied items to q, ascending
BruteForce(q) == SortAsc([i \in 1..n |-> getDistance(input[i], q)])

DistsOf(rs) == [i \in 1..Len(rs) |-> rs[i].dist]

\* the nodes of the subtree rooted at node i
RECURSIVE Subtree(_)
Subtree(i) ==
    IF i = Leaf THEN {}
    ELSE {i} \cup Subtree(At(nodes_, i).left) \cup Subtree(At(nodes_, i).right)

\* the items (values) held by the nodes of a subtree
ItemsUnder(i) == {At(items_, At(nodes_, j).item)[1] : j \in Subtree(i)}

\* C1: a finished query with k >= 1 on a tree of n >= 1 items returns
\* min(k, n) results whose distances, in the order returned, are
\* non-decreasing and are the first min(k, n) distances of the ascending
\* brute-force sort of all items by distance to the target.
C1_MatchesBruteForce ==
    \A s \in Searchers :
        (pc[s] = "done" /\ n >= 1 /\ neighborsCount_[s] >= 1) =>
            LET m == Min(neighborsCount_[s], n)
                d == DistsOf(results[s])
            IN  /\ Len(results[s]) = m
                /\ \A i \in 1..(Len(d) - 1) : d[i] <= d[i + 1]
                /\ d = SubSeq(BruteForce(target_[s]), 1, m)

\* a finished query with fewer neighbours asked for than items, in which
\* pruning skipped part of the tree
C1_Witness ==
    \E s \in Searchers :
        /\ pc[s] = "done" /\ neighborsCount_[s] >= 2 /\ neighborsCount_[s] < n
        /\ Len(visited[s]) < n
        /\ \E i \in 1..Len(nodes_) : nodes_[i].left # Leaf

\* a finished query with more neighbours asked for than items
C1_WitnessMore ==
    \E s \in Searchers : pc[s] = "done" /\ n >= 2 /\ neighborsCount_[s] > n

\* C2: every result of a finished query carries the original input
\* position of its item: the index is in 0..n-1, the item pointed to is the
\* item supplied at that position, the distance is the metric distance of
\* that item to the target, and no two results name the same position.
C2_OriginalIndex ==
    \A s \in Searchers :
        pc[s] = "done" =>
            /\ \A i \in 1..Len(results[s]) :
                LET r == results[s][i]
                IN  /\ r.index \in 0..(n - 1)
                    /\ At(items_, r.item) = <<At(input, r.index), r.index>>
                    /\ r.dist = getDistance(At(input, r.index), target_[s])
            /\ \A i, j \in 1..Len(results[s]) :
                i # j => results[s][i].index # results[s][j].index

\* a result whose item was moved by construction: its position in items_
\* is not its original index, and the item originally there is another one
C2_Witness ==
    \E s \in Searchers :
        /\ pc[s] = "done"
        /\ \E i \in 1..Len(results[s]) :
             /\ results[s][i].item # results[s][i].index
             /\ At(input, results[s][i].item) # At(input, results[s][i].index)

\* C3: on a tree with items, a query with k = 0 performs no push and no pop
\* on the heap and returns an empty sequence.
C3_ZeroNoHeapActivity ==
    \A s \in Searchers :
        (n >= 1 /\ pc[s] # "idle" /\ neighborsCount_[s] = 0) =>
            /\ pushes[s] = 0 /\ pops[s] = 0
            /\ ~crashed
            /\ pc[s] = "done" => results[s] = <<>>

\* C4: for an empty item set construction produces zero nodes, and every
\* query returns an empty sequence without reading a node or an item.
C4_EmptyTree ==
    (built /\ input = <<>>) =>
        /\ nodes_ = <<>>
        /\ ~oob /\ ~crashed
        /\ \A s \in Searchers :
            /\ pc[s] # "indeterminate"
            /\ visited[s] = <<>>
            /\ pc[s] = "done" => results[s] = <<>>

\* C5: a query with a negative neighbour count is rejected before any heap
\* operation: no push, no pop, and no item is returned as a result.
C5_NegativeRejected ==
    \A s \in Searchers :
        (n >= 1 /\ pc[s] # "idle" /\ neighborsCount_[s] < 0) =>
            /\ pushes[s] = 0 /\ pops[s] = 0
            /\ pc[s] = "done" => results[s] = <<>>

\* C6: after construction over n items the node sequence has exactly n
\* nodes, every item position 0..n-1 is the vantage point of exactly one
\* node, every child index names a later node that is the child of that
\* parent only, and for n >= 1 every node is reachable from node 0.
C6_OneNodePerItem ==
    built =>
        /\ Len(nodes_) = n /\ Len(items_) = n
        /\ \A p \in 0..(n - 1) :
             Cardinality({i \in 1..n : nodes_[i].item = p}) = 1
        /\ \A i \in 0..(n - 1) :
             /\ At(nodes_, i).left \in {Leaf} \cup ((i + 1)..(n - 1))
             /\ At(nodes_, i).right \in {Leaf} \cup ((i + 1)..(n - 1))
             /\ At(nodes_, i).left # Leaf => At(nodes_, i).left # At(nodes_, i).right
        /\ \A c \in 1..(n - 1) :
             Cardinality({i \in 0..(n - 1) :
                            At(nodes_, i).left = c \/ At(nodes_, i).right = c}) = 1
        /\ n >= 1 => Subtree(0) = 0..(n - 1)

\* a tree in which some node has both a left and a right child
C6_Witness ==
    /\ built /\ n >= 4
    /\ \E i \in 1..Len(nodes_) : nodes_[i].left # Leaf /\ nodes_[i].right # Leaf

\* C7: for every node with vantage point v and threshold t, every item of
\* the left subtree is at distance <= t from v and every item of the right
\* subtree at distance >= t; t is the distance from v to an item of the
\* right subtree (the one placed at the median), and 0 in a node without
\* children.
C7_ThresholdSeparates ==
    built =>
        \A i \in 0..(Len(nodes_) - 1) :
            LET nd == At(nodes_, i)
                v == At(items_, nd.item)[1]
            IN  /\ \A x \in ItemsUnder(nd.left) : getDistance(v, x) <= nd.threshold
                /\ \A x \in ItemsUnder(nd.right) : getDistance(v, x) >= nd.threshold
                /\ nd.right # Leaf =>
                     \E x \in ItemsUnder(nd.right) : getDistance(v, x) = nd.threshold
                /\ (nd.left = Leaf /\ nd.right = Leaf) => nd.threshold = 0

\* a node whose left subtree holds an item nearer than the threshold, whose
\* right subtree holds one farther than it, and one tied with it on the left
C7_Witness ==
    /\ built
    /\ \E i \in 0..(Len(nodes_) - 1) :
        LET nd == At(nodes_, i)
            v == At(items_, nd.item)[1]
        IN  /\ nd.left # Leaf /\ nd.right # Leaf
            /\ \E x \in ItemsUnder(nd.right) : getDistance(v, x) > nd.threshold
            /\ \E x \in ItemsUnder(nd.left) : getDistance(v, x) < nd.threshold

\* a node with an item on the left at exactly the threshold distance
C7_WitnessTie ==
    /\ built
    /\ \E i \in 0..(Len(nodes_) - 1) :
        LET nd == At(nodes_, i)
            v == At(items_, nd.item)[1]
        IN  /\ nd.threshold > 0
            /\ \E x \in ItemsUnder(nd.left) : getDistance(v, x) = nd.threshold

\* the steps searcher s can take once its query has started
SearchStep(s) ==
    SearchFirst(s) \/ SearchSecond(s) \/ SearchReturn(s) \/ SearchResults(s)

\* the distances to the target of the vantage points visited so far, ascending
VisitedDists(s) ==
    SortAsc([i \in 1..Len(visited[s]) |->
               getDistance(At(items_, At(nodes_, visited[s][i]).item)[1], target_[s])])

\* C8, as a whole: after construction no step changes the item sequence,
\* the node sequence or the random source, and two finished queries with the
\* same target and the same count, run by two threads with interleaved
\* steps, have returned identical results.
C8_ReadOnlyRepeatable ==
    /\ [][built => UNCHANGED <<items_, nodes_, rng_>>]_vars
    /\ [](\A s, t \in Searchers :
            (pc[s] = "done" /\ pc[t] = "done" /\ target_[s] = target_[t]
             /\ neighborsCount_[s] = neighborsCount_[t]) => results[s] = results[t])

\* During a search with k >= 1 the heap holds min(k, nodes visited)
\* entries, their distances are the smallest distances among the vantage
\* points visited, the largest of them is on top, tau is the initial maximum
\* while the heap holds fewer than k entries and the top distance otherwise.
C9_HeapInv ==
    \A s \in Searchers :
        (pc[s] = "search" /\ neighborsCount_[s] >= 1) =>
            LET h == heap_[s]
            IN  /\ Len(h) = Min(neighborsCount_[s], Len(visited[s]))
                /\ Len(h) <= neighborsCount_[s]
                /\ SortAsc(DistsOf(h)) = SubSeq(VisitedDists(s), 1, Len(h))
                /\ \A i \in 1..Len(h) : h[i].dist <= h[1].dist
                /\ tau_[s] = IF Len(h) < neighborsCount_[s] THEN DblMax ELSE h[1].dist

\* C9: the heap invariant above holds throughout every search with k >= 1,
\* and no step of such a search increases tau.
C9_BestSoFar ==
    /\ []C9_HeapInv
    /\ [][\A s \in Searchers : neighborsCount_'[s] >= 1 => tau_'[s] <= tau_[s]]_vars

\* a search in which a candidate was evicted and a visited node was not admitted
C9_Witness ==
    \E s \in Searchers :
        /\ pc[s] = "search" /\ neighborsCount_[s] >= 2
        /\ pops[s] >= 1
        /\ pushes[s] < Len(visited[s])
        /\ tau_[s] > 0

\* C10: a started search over a tree with items never stops short of
\* returning: it evaluates at most n distances, visits no node twice, always
\* has a next step until it has returned, and returns with the heap emptied.
C10_Terminates ==
    \A s \in Searchers :
        n >= 1 =>
            /\ Len(visited[s]) <= n
            /\ \A i, j \in 1..Len(visited[s]) : i # j => visited[s][i] # visited[s][j]
            /\ pc[s] = "search" => ENABLED SearchStep(s)
            /\ pc[s] = "done" => heap_[s] = <<>> /\ stack[s] = <<>>
====
